---- MODULE Spec2Model ----
(***************************************************************************)
(* Model of native/ex_attr_nif/src/lib.rs: five NIFs that relay the        *)
(* extended-attribute calls of the xattr crate and classify io::Error      *)
(* values through io_error_to_atom.                                        *)
(*                                                                         *)
(* Errno numbers are the Linux ones and ENOATTR = ENODATA.  The file       *)
(* system is the environment: a map from (path, attribute name) to an      *)
(* optional byte string, whose calls end the way getxattr, setxattr,       *)
(* listxattr and removexattr document for that map.  A run is either on a  *)
(* sound system, where the OS raises only the errors the map dictates      *)
(* (ENOENT, ENODATA), or on one whose xattr calls all end with one         *)
(* io::Error (fault): an errno such as EACCES or EIO, or an error without  *)
(* errno, such as ErrorKind::Unsupported on a build for a platform that    *)
(* has no extended attributes.                                             *)
(***************************************************************************)
EXTENDS Integers, Sequences, FiniteSets, TLC

\* ------------------------------------------------------------------ bounds
MaxValLen == 2
MaxErrno == 133

\* ------------------------------------------------------- rustix::io::Errno
TOOBIG == 7
ACCESS == 13
INVAL == 22
IO == 5
NODATA == 61
NOENT == 2
NOMEM == 12
NOSPC == 28
PERM == 1
ROFS == 30
NOTSUP == 95

\* ------------------------------------------------------------ input domains
\* the byte the values are made of: one that is no UTF-8 and no ASCII
Bytes == {255}

RECURSIVE SeqsUpTo(_, _)
SeqsUpTo(S, n) ==
    IF n = 0 THEN {<<>>}
    ELSE LET shorter == SeqsUpTo(S, n - 1)
         IN shorter \cup {Append(s, b) : s \in shorter, b \in S}

\* attribute values: every byte string of at most MaxValLen bytes
Values == SeqsUpTo(Bytes, MaxValLen)

\* paths the callers pass; "/none" names no file
ExistingPaths == {"/a", "/b"}
Paths == ExistingPaths \cup {"/none"}

\* names as the bytes handed to the OS: "a", "e-acute" (two bytes of UTF-8),
\* and a name some other program set that is not UTF-8
NameA == <<97>>
NameE == <<195, 169>>
NameRaw == <<97, 255>>
OsNames == {NameA, NameE, NameRaw}

\* ----------------------------------------------------------------- io::Error
\* an io::Error either wraps an OS errno or is built from an ErrorKind
OsError(code) == [has_code |-> TRUE, code |-> code, kind |-> "Os"]
KindError(kind) == [has_code |-> FALSE, code |-> 0, kind |-> kind]
NoError == [has_code |-> FALSE, code |-> 0, kind |-> "None"]

ErrorKinds == {"Unsupported", "InvalidInput", "Other"}
IoErrors == {OsError(c) : c \in 1..MaxErrno} \cup {KindError(k) : k \in ErrorKinds}

raw_os_error(err) == [some |-> err.has_code, code |-> err.code]
\* Errno is the errno number, wrapped
from_raw_os_error(code) == code
\* err.to_string(): the OS text with its number, or the text of the kind
to_string(err) ==
    IF err.has_code THEN [text |-> "os error", code |-> err.code]
    ELSE [text |-> err.kind, code |-> 0]

NoMsg == [text |-> "", code |-> 0]

AsAtom(atom) == [ok |-> TRUE, atom |-> atom, msg |-> NoMsg]
AsString(msg) == [ok |-> FALSE, atom |-> "", msg |-> msg]

\* a slip in the table: the tags of ACCESS and PERM exchanged
errno_match_exchanged(err, errno) ==
    CASE errno = TOOBIG -> AsAtom("e2big")
      [] errno = ACCESS -> AsAtom("eperm")
      [] errno = INVAL -> AsAtom("einval")
      [] errno = IO -> AsAtom("eio")
      [] errno = NODATA -> AsAtom("enodata")
      [] errno = NOENT -> AsAtom("enoent")
      [] errno = NOMEM -> AsAtom("enomem")
      [] errno = NOSPC -> AsAtom("enospc")
      [] errno = PERM -> AsAtom("eacces")
      [] errno = ROFS -> AsAtom("erofs")
      [] errno = NOTSUP -> AsAtom("enotsup")
      [] OTHER -> AsString(to_string(err))

\* match Errno::from_raw_os_error(code) { ... _ => Err(err.to_string()) }
errno_match(err, errno) ==
    CASE errno = TOOBIG -> AsAtom("e2big")
      [] errno = ACCESS -> AsAtom("eacces")
      [] errno = INVAL -> AsAtom("einval")
      [] errno = IO -> AsAtom("eio")
      [] errno = NODATA -> AsAtom("enodata")
      [] errno = NOENT -> AsAtom("enoent")
      [] errno = NOMEM -> AsAtom("enomem")
      [] errno = NOSPC -> AsAtom("enospc")
      [] errno = PERM -> AsAtom("eperm")
      [] errno = ROFS -> AsAtom("erofs")
      [] errno = NOTSUP -> AsAtom("enotsup")
      [] OTHER -> AsString(to_string(err))

\* the classifier without its ErrorKind::Unsupported arm
io_error_to_atom_codes_only(err) ==
    IF raw_os_error(err).some
    THEN errno_match(err, from_raw_os_error(raw_os_error(err).code))
    ELSE AsString(to_string(err))

\* Result<&'static str, String>: Ok is sent as an atom, Err as a string
io_error_to_atom(err) ==
    IF raw_os_error(err).some
    THEN errno_match(err, from_raw_os_error(raw_os_error(err).code))
    ELSE IF err.kind = "Unsupported"
         THEN AsAtom("enotsup")
         ELSE AsString(to_string(err))

\* ---------------------------------------------------------------- NifResult
\* what crosses to the host: Ok(term), Err(Error::Atom), Err(Error::Term(msg))
Reply(tag, atom, msg, some, bytes, names, flag) ==
    [tag |-> tag, atom |-> atom, msg |-> msg, some |-> some, bytes |-> bytes,
     names |-> names, flag |-> flag]
OkSome(bytes) == Reply("ok", "", NoMsg, TRUE, bytes, <<>>, FALSE)
OkNone == Reply("ok", "", NoMsg, FALSE, <<>>, <<>>, FALSE)
OkAtom == Reply("ok", "ok", NoMsg, FALSE, <<>>, <<>>, FALSE)
OkNames(names) == Reply("ok", "", NoMsg, FALSE, <<>>, names, FALSE)
OkBool(flag) == Reply("ok", "", NoMsg, FALSE, <<>>, <<>>, flag)
ErrAtom(atom) == Reply("atom", atom, NoMsg, FALSE, <<>>, <<>>, FALSE)
ErrTerm(msg) == Reply("term", "", msg, FALSE, <<>>, <<>>, FALSE)
NoReply == Reply("none", "", NoMsg, FALSE, <<>>, <<>>, FALSE)

\* the Err(e) arm shared by the four fallible NIFs
classified(err) ==
    LET r == io_error_to_atom(err)
    IN IF r.ok THEN ErrAtom(r.atom) ELSE ErrTerm(r.msg)

\* ------------------------------------------------- text and byte conversions
\* String::as_ref::<OsStr>() / Binary::as_slice(): the same bytes, unchanged
as_slice(value) == value

IsCont(b) == b >= 128 /\ b <= 191

\* std::str::from_utf8 acceptance, as OsString::into_string applies it on Unix
RECURSIVE IsUtf8(_)
IsUtf8(bs) ==
    IF bs = <<>> THEN TRUE
    ELSE LET b == Head(bs)
             n == Len(bs)
         IN CASE b < 128 -> IsUtf8(Tail(bs))
              [] b >= 194 /\ b <= 223 ->
                    n >= 2 /\ IsCont(bs[2]) /\ IsUtf8(SubSeq(bs, 3, n))
              [] b >= 224 /\ b <= 239 ->
                    /\ n >= 3 /\ IsCont(bs[2]) /\ IsCont(bs[3])
                    /\ (b = 224 => bs[2] >= 160)
                    /\ (b = 237 => bs[2] <= 159)
                    /\ IsUtf8(SubSeq(bs, 4, n))
              [] b >= 240 /\ b <= 244 ->
                    /\ n >= 4 /\ IsCont(bs[2]) /\ IsCont(bs[3]) /\ IsCont(bs[4])
                    /\ (b = 240 => bs[2] >= 144)
                    /\ (b = 244 => bs[2] <= 143)
                    /\ IsUtf8(SubSeq(bs, 5, n))
              [] OTHER -> FALSE

\* OsString::into_string(): Ok(String) with the same bytes, or Err(self)
into_string(os) == [ok |-> IsUtf8(os), string |-> os]

\* the names a caller can pass: a Rust String is valid UTF-8
Names == {n \in OsNames : IsUtf8(n)}

\* -------------------------------------------------------------------- state
VARIABLES
    store,   \* the OS attribute store: store[path][name] is Absent or Present(v)
    fault,   \* the io::Error every xattr call of this run ends with (no
             \* permission, unsupported build, ...), or NoError
    last,    \* the most recent NIF call: arguments, error seen, reply
    ledger   \* per (path, name): what the latest successful set_xattr or
             \* remove_xattr call on it did

vars == <<store, fault, last, ledger>>

\* ------------------------------------------------ the OS and the xattr crate
Absent == [some |-> FALSE, bytes |-> <<>>]
Present(v) == [some |-> TRUE, bytes |-> v]

\* io::Result of an xattr call
Done == [ok |-> TRUE, err |-> NoError, some |-> FALSE, bytes |-> <<>>, names |-> <<>>]
Got(v) == [ok |-> TRUE, err |-> NoError, some |-> TRUE, bytes |-> v, names |-> <<>>]
Listed(names) == [ok |-> TRUE, err |-> NoError, some |-> FALSE, bytes |-> <<>>, names |-> names]
Failed(err) == [ok |-> FALSE, err |-> err, some |-> FALSE, bytes |-> <<>>, names |-> <<>>]

\* getxattr(2): ENOENT for a missing file, ENODATA for a missing attribute
sys_get(st, path, name) ==
    IF fault # NoError THEN Failed(fault)
    ELSE IF path \notin ExistingPaths THEN Failed(OsError(NOENT))
    ELSE IF ~st[path][name].some THEN Failed(OsError(NODATA))
    ELSE Got(st[path][name].bytes)

\* xattr::get: an error whose raw code is ENOATTR becomes Ok(None)
extract_noattr(r) ==
    IF ~r.ok /\ r.err.has_code /\ r.err.code = NODATA THEN Done ELSE r

xattr_get(st, path, name) == extract_noattr(sys_get(st, path, name))

\* xattr::set: setxattr(2) with flags 0 creates or replaces
xattr_set(st, path, name, value) ==
    IF fault # NoError THEN [res |-> Failed(fault), store |-> st]
    ELSE IF path \notin ExistingPaths
    THEN [res |-> Failed(OsError(NOENT)), store |-> st]
    ELSE [res |-> Done,
          store |-> [st EXCEPT ![path][name] = Present(value)]]

\* xattr::remove: removexattr(2), ENODATA when the attribute is not there
xattr_remove(st, path, name) ==
    IF fault # NoError THEN [res |-> Failed(fault), store |-> st]
    ELSE IF path \notin ExistingPaths
    THEN [res |-> Failed(OsError(NOENT)), store |-> st]
    ELSE IF ~st[path][name].some
    THEN [res |-> Failed(OsError(NODATA)), store |-> st]
    ELSE [res |-> Done, store |-> [st EXCEPT ![path][name] = Absent]]

NamesOn(st, path) == {n \in OsNames : st[path][n].some}

\* every order in which listxattr(2) may report a set of names
Orders(S) ==
    {q \in [1..Cardinality(S) -> S] : \A i, j \in 1..Cardinality(S) : q[i] = q[j] => i = j}

\* xattr::list with the OS reporting the names in the order `order`
xattr_list(st, path, order) ==
    IF fault # NoError THEN Failed(fault)
    ELSE IF path \notin ExistingPaths THEN Failed(OsError(NOENT)) ELSE Listed(order)

\* ------------------------------------------------------------------ the NIFs
\* false on a build whose xattr calls all end with ErrorKind::Unsupported
SUPPORTED_PLATFORM == fault # KindError("Unsupported")

\* each NIF yields its reply, the io::Error its Err arm received (NoError if
\* none) and the attribute store the call leaves behind
Outcome(reply, err, st) == [reply |-> reply, err |-> err, store |-> st]

supported_platform(st) == Outcome(OkBool(SUPPORTED_PLATFORM), NoError, st)

\* Ok(None) reported as the error the OS raised for it
get_match_collapsed(r) ==
    IF r.ok
    THEN IF r.some THEN OkSome(r.bytes) ELSE ErrAtom("enodata")
    ELSE classified(r.err)

\* an empty value taken for no value
get_match_empty_is_none(r) ==
    IF r.ok
    THEN IF r.some /\ r.bytes # <<>> THEN OkSome(r.bytes) ELSE OkNone
    ELSE classified(r.err)

\* the match of get_xattr on the io::Result<Option<Vec<u8>>> of xattr::get
get_match(r) ==
    IF r.ok
    THEN IF r.some THEN OkSome(r.bytes) ELSE OkNone
    ELSE classified(r.err)

get_xattr(st, path, name) ==
    LET r == xattr_get(st, path, name)
    IN Outcome(get_match(r), r.err, st)

\* the match of set_xattr and of remove_xattr on an io::Result<()>
unit_match(r) == IF r.ok THEN OkAtom ELSE classified(r.err)

\* set through a create-only call: EEXIST when the attribute is already there
set_xattr_create_only(st, path, name, value) ==
    LET c == xattr_set(st, path, name, as_slice(value))
    IN IF c.res.ok /\ st[path][name].some
       THEN Outcome(classified(OsError(17)), OsError(17), st)
       ELSE Outcome(unit_match(c.res), c.res.err, c.store)

set_xattr(st, path, name, value) ==
    LET c == xattr_set(st, path, name, as_slice(value))
    IN Outcome(unit_match(c.res), c.res.err, c.store)

\* the value emptied instead of the attribute removed
remove_xattr_empties(st, path, name) ==
    LET c == xattr_remove(st, path, name)
    IN IF c.res.ok
       THEN Outcome(OkAtom, NoError, xattr_set(st, path, name, <<>>).store)
       ELSE Outcome(unit_match(c.res), c.res.err, c.store)

\* a missing attribute passed over, as get_xattr passes over it
remove_xattr_lenient(st, path, name) ==
    LET c == xattr_remove(st, path, name)
    IN IF ~c.res.ok /\ c.res.err = OsError(NODATA)
       THEN Outcome(OkAtom, NoError, c.store)
       ELSE Outcome(unit_match(c.res), c.res.err, c.store)

\* every attribute of the path that a String can name removed with it
remove_xattr_whole_path(st, path, name) ==
    LET c == xattr_remove(st, path, name)
    IN IF c.res.ok
       THEN Outcome(OkAtom, NoError,
                    [st EXCEPT ![path] =
                        [n \in OsNames |-> IF n \in Names THEN Absent ELSE st[path][n]]])
       ELSE Outcome(unit_match(c.res), c.res.err, c.store)

remove_xattr(st, path, name) ==
    LET c == xattr_remove(st, path, name)
    IN Outcome(unit_match(c.res), c.res.err, c.store)

FailedToConvert == [text |-> "Failed to convert OsString", code |-> 0]

\* filter_map: the names that do not convert left out
RECURSIVE collect_skipping(_)
collect_skipping(attrs) ==
    IF attrs = <<>> THEN OkNames(<<>>)
    ELSE LET first == into_string(Head(attrs))
             rest == collect_skipping(Tail(attrs))
         IN IF first.ok THEN OkNames(<<first.string>> \o rest.names) ELSE rest

\* the iterator advanced once before it is collected: the first name lost
collect_after_first(attrs) ==
    IF \E i \in 1..Len(attrs) : ~into_string(attrs[i]).ok
    THEN ErrTerm(FailedToConvert)
    ELSE OkNames(IF attrs = <<>> THEN <<>> ELSE Tail(attrs))

\* attrs.map(into_string ...).collect::<Result<Vec<String>, Error>>():
\* the strings in order, or the error of the first name that does not convert
RECURSIVE collect(_)
collect(attrs) ==
    IF attrs = <<>> THEN OkNames(<<>>)
    ELSE LET first == into_string(Head(attrs))
         IN IF ~first.ok THEN ErrTerm(FailedToConvert)
            ELSE LET rest == collect(Tail(attrs))
                 IN IF rest.tag = "ok"
                    THEN OkNames(<<first.string>> \o rest.names)
                    ELSE rest

list_match(r) == IF r.ok THEN collect(r.names) ELSE classified(r.err)

list_xattr(st, path, order) ==
    LET r == xattr_list(st, path, order)
    IN Outcome(list_match(r), r.err, st)

Never == [did |-> "never", bytes |-> <<>>]
Written(v) == [did |-> "set", bytes |-> v]
Removed == [did |-> "removed", bytes |-> <<>>]

\* `before` is the ledger entry of the call's (path, name) when the call began
Call(op, path, name, value, before, out) ==
    [op |-> op, path |-> path, name |-> name, value |-> value,
     before |-> before, err |-> out.err, reply |-> out.reply]

NoCall == [op |-> "none", path |-> "", name |-> <<>>, value |-> <<>>,
           before |-> Never, err |-> NoError, reply |-> NoReply]

\* fresh files; "/b" may carry an attribute, set by some other program, whose
\* name is not UTF-8; the system is sound or fails its xattr calls with one
\* io::Error, drawn from every errno and every kind an io::Error can carry
Init ==
    /\ \E foreign \in {Absent, Present(<<>>)} :
          store = [p \in ExistingPaths |->
                     [n \in OsNames |->
                        IF p = "/b" /\ n = NameRaw THEN foreign ELSE Absent]]
    /\ fault \in {NoError} \cup IoErrors
    /\ last = NoCall
    /\ ledger = [p \in Paths |-> [n \in Names |-> Never]]

Succeeded(call) == call.reply = OkAtom

Record(call, st) ==
    /\ store' = st
    /\ UNCHANGED fault
    /\ last' = call
    /\ ledger' =
         IF call.op = "set_xattr" /\ Succeeded(call)
         THEN [ledger EXCEPT ![call.path][call.name] = Written(call.value)]
         ELSE IF call.op = "remove_xattr" /\ Succeeded(call)
         THEN [ledger EXCEPT ![call.path][call.name] = Removed]
         ELSE ledger

call_supported_platform ==
    LET out == supported_platform(store)
    IN Record(Call("supported_platform", "", <<>>, <<>>, Never, out), out.store)

call_get_xattr ==
    \E path \in Paths, name \in Names :
        LET out == get_xattr(store, path, name)
        IN Record(Call("get_xattr", path, name, <<>>, ledger[path][name], out),
                  out.store)

call_set_xattr ==
    \E path \in Paths, name \in Names, value \in Values :
        LET out == set_xattr(store, path, name, value)
        IN Record(Call("set_xattr", path, name, value, ledger[path][name], out),
                  out.store)

call_list_xattr ==
    \E path \in Paths :
        \E order \in (IF path \in ExistingPaths /\ fault = NoError
                      THEN Orders(NamesOn(store, path)) ELSE {<<>>}) :
            LET out == list_xattr(store, path, order)
            IN Record(Call("list_xattr", path, <<>>, <<>>, Never, out), out.store)

call_remove_xattr ==
    \E path \in Paths, name \in Names :
        LET out == remove_xattr(store, path, name)
        IN Record(Call("remove_xattr", path, name, <<>>, ledger[path][name], out),
                  out.store)

Next ==
    \/ call_supported_platform
    \/ call_get_xattr
    \/ call_set_xattr
    \/ call_list_xattr
    \/ call_remove_xattr

Spec == Init /\ [][Next]_vars

TypeOK ==
    /\ store \in [ExistingPaths -> [OsNames -> {Absent} \cup {Present(v) : v \in Values}]]
    /\ fault \in {NoError} \cup IoErrors
    /\ last.op \in {"none", "supported_platform", "get_xattr", "set_xattr",
                    "list_xattr", "remove_xattr"}
    /\ last.reply.tag \in {"none", "ok", "atom", "term"}
    /\ ledger \in [Paths -> [Names -> {Never, Removed} \cup {Written(v) : v \in Values}]]

\* --------------------------------------------------------------- properties
Range(q) == {q[i] : i \in 1..Len(q)}

Sound == fault = NoError

\* the call just made was op on an existing path
On(op) == last.op = op /\ last.path \in ExistingPaths

\* get_xattr was called for an attribute that is not set on an existing path
C1_Case == On("get_xattr") /\ ~store[last.path][last.name].some

\* C1 as stated: every get_xattr of an attribute that is not set on an existing
\* path replies absent, never a failure.
C1_Original == C1_Case => last.reply = OkNone

\* C1 (amended): get_xattr of an attribute that is not set on an existing path
\* replies absent (never a value, never the tag enodata) unless the OS call
\* ends with an error other than attribute-not-found, and then the reply is
\* that error classified.
C1_AbsentIsNotEnodata ==
    C1_Case =>
        /\ last.reply # ErrAtom("enodata")
        /\ fault \in {NoError, OsError(NODATA)} => last.reply = OkNone
        /\ fault \notin {NoError, OsError(NODATA)} => last.reply = classified(fault)

C1_Witness == C1_Case /\ Sound /\ last.reply = OkNone

RefTable ==
    (7 :> "e2big") @@ (13 :> "eacces") @@ (22 :> "einval") @@ (5 :> "eio")
    @@ (61 :> "enodata") @@ (2 :> "enoent") @@ (12 :> "enomem")
    @@ (28 :> "enospc") @@ (1 :> "eperm") @@ (30 :> "erofs") @@ (95 :> "enotsup")

\* C3: an error with a numeric code is classified by the fixed table: the
\* eleven codes give their tags, every other code gives the message fallback
\* with the error's own text.
C3_TableExact ==
    last.err.has_code =>
        IF last.err.code \in DOMAIN RefTable
        THEN last.reply = ErrAtom(RefTable[last.err.code])
        ELSE last.reply = ErrTerm([text |-> "os error", code |-> last.err.code])

C3_Witness ==
    /\ last.err.has_code
    /\ last.err.code \notin DOMAIN RefTable
    /\ last.reply.tag = "term"

FallibleOps == {"get_xattr", "set_xattr", "list_xattr", "remove_xattr"}

\* C4: in each of the four fallible NIFs an error without a numeric code is
\* the tag enotsup when its kind is Unsupported and the message fallback for
\* any other kind.
C4_UnsupportedKind ==
    last.op \in FallibleOps /\ last.err # NoError /\ ~last.err.has_code =>
        IF last.err.kind = "Unsupported"
        THEN last.reply = ErrAtom("enotsup")
        ELSE last.reply = ErrTerm([text |-> last.err.kind, code |-> 0])

C4_Witness ==
    /\ last.op = "list_xattr"
    /\ last.err = KindError("Unsupported")
    /\ last.reply = ErrAtom("enotsup")

\* list_xattr was called, the OS listing succeeded and a name is not UTF-8
C5_Case ==
    /\ On("list_xattr") /\ last.err = NoError /\ Sound
    /\ \E n \in NamesOn(store, last.path) : ~IsUtf8(n)

\* C5: when the OS listing succeeds and a name on the path is not valid text,
\* list_xattr fails with the message "Failed to convert OsString": no list of
\* the other names, no tag.
C5_UndecodableAborts ==
    C5_Case =>
        last.reply = ErrTerm([text |-> "Failed to convert OsString", code |-> 0])

C5_Witness ==
    /\ C5_Case
    /\ NamesOn(store, last.path) = OsNames
    /\ last.reply.tag = "term"

\* the names the calls made so far have left set on a path
SetBy(path) == {n \in Names : ledger[path][n].did = "set"}

\* C6: a list_xattr(p) that succeeds replies exactly the names whose latest
\* successful set_xattr/remove_xattr call on p is a set_xattr, each once.
C6_ListExact ==
    last.op = "list_xattr" /\ last.reply.tag = "ok" =>
        /\ Range(last.reply.names) = SetBy(last.path)
        /\ Len(last.reply.names) = Cardinality(SetBy(last.path))

C6_Witness ==
    /\ last.op = "list_xattr" /\ last.reply.tag = "ok"
    /\ last.reply.names = <<NameE>>
    /\ ledger[last.path][NameA] = Removed

C9_Case == On("remove_xattr") /\ last.before.did # "set"

\* C9 as stated: remove_xattr of an attribute that is not set on an existing
\* path fails with the tag enodata.
C9_Original == C9_Case => last.reply = ErrAtom("enodata")

\* C9 (amended): remove_xattr of an attribute that is not set on an existing
\* path never replies ok: it fails with the tag enodata, or, when the OS call
\* ends with another error, with that error classified.
C9_RemoveAbsentFails ==
    C9_Case =>
        /\ last.reply # OkAtom
        /\ last.reply.tag \in {"atom", "term"}
        /\ Sound => last.reply = ErrAtom("enodata")
        /\ ~Sound => last.reply = classified(fault)

C9_Witness == C9_Case /\ Sound /\ last.reply = ErrAtom("enodata")

\* C10: a step changes the attribute store only if it is a set_xattr or a
\* remove_xattr that replied ok, and then only at the (path, name) it names.
C10_Frame ==
    [][store' # store =>
          /\ last'.op \in {"set_xattr", "remove_xattr"}
          /\ last'.reply = OkAtom
          /\ \A p \in ExistingPaths, n \in OsNames :
                (p # last'.path \/ n # last'.name) => store'[p][n] = store[p][n]]_vars

C10_Witness ==
    /\ last.op \in {"set_xattr", "remove_xattr"}
    /\ last.reply.tag \in {"atom", "term"}
    /\ \E p \in ExistingPaths : Cardinality(NamesOn(store, p)) >= 2

====
